---- MODULE Spec2Model ----
(***************************************************************************)
(* Model of jenkins_slave.py: the Groovy reconciliation script the module  *)
(* submits to the Jenkins script console (process, createNode, changeNode, *)
(* removeNode, applyState, connect, disconnect, makeTemporarilyOffline)    *)
(* together with the Jenkins node/computer objects the script acts on.     *)
(*                                                                         *)
(* Values: strings and choices are TLA+ strings, integers are numeric      *)
(* strings (the python side embeds them with str()), the booleans of the   *)
(* node configuration are "true"/"false" (python embeds str(val).lower()), *)
(* and Groovy null is the value Null.                                      *)
(***************************************************************************)
EXTENDS Naturals, Sequences, FiniteSets, TLC

VARIABLES
    nodes,      \* Jenkins.instance.nodes with each node's computer, by node name
    call,       \* the script invocation in progress or last finished
    plugins,    \* the launch methods whose launcher class the control plane can load
    other       \* a second invocation, run while the first is in its wait loop

vars == <<nodes, call, plugins, other>>

Null == "<null>"
NoCause == "<no cause>"
Not(b) == IF b = "true" THEN "false" ELSE "true"

--------------------------------------------------------------------------
(* Arguments: run_module's argument_spec and the args map of the script.   *)

StringArgs == {"description", "root_dir", "labels", "jnlp_workdir_path", "jnlp_internal_dir",
               "jnlp_tunnel", "jnlp_jvm_options", "command_launch_command",
               "wmi_admin_username", "wmi_admin_password", "wmi_host",
               "wmi_service_username", "wmi_service_password", "wmi_java_path",
               "wmi_jvm_options", "ssh_host", "ssh_credentials_id", "ssh_host_key",
               "ssh_java_path", "ssh_jvm_options", "ssh_command_prefix",
               "ssh_command_suffix", "ssh_workdir"}

IntArgs == {"executors", "ssh_port", "ssh_connection_timeout", "ssh_retries",
            "ssh_wait_between_retries", "on_demand_in_demand_delay", "on_demand_idle_delay"}

ChoiceArgs == {"usage", "launch_method", "wmi_service_run_as", "ssh_host_verification",
               "availability"}

BoolArgs == {"jnlp_workdir_enabled", "jnlp_fail_if_workspace_missing",
             "ssh_host_manually_trusted_require_initial_verification", "ssh_tcp_no_delay"}

ConfigArgs == StringArgs \cup IntArgs \cup ChoiceArgs \cup BoolArgs

States == {"query", "absent", "present", "online", "offline", "connected", "disconnected"}

\* module.params of a task that sets nothing but name: every optional
\* parameter is None, state/wait_jobs_finish/wait_jobs_finish_max_time take
\* the argument_spec defaults.
DefaultParams ==
    [k \in ConfigArgs |-> Null] @@
    [name |-> "a1", state |-> "online", offline_reason |-> Null, disconnected_reason |-> Null,
     wait_jobs_finish |-> TRUE, wait_jobs_finish_max_time |-> 0]

to_bool_arg(val, defval) ==
    IF val = Null \/ val = "" THEN [set |-> FALSE, val |-> defval] ELSE [set |-> TRUE, val |-> val]

to_int_arg(val, defval) ==
    IF val = Null \/ val = "" THEN [set |-> FALSE, val |-> defval] ELSE [set |-> TRUE, val |-> val]

to_choice_arg(val, defval) ==
    IF val = Null \/ val = "" THEN [set |-> FALSE, val |-> defval] ELSE [set |-> TRUE, val |-> val]

to_string_arg(val, defval) ==
    IF val = Null THEN [set |-> FALSE, val |-> defval] ELSE [set |-> TRUE, val |-> val]

\* The default each to_*_arg call of the script passes for its argument.
ArgDefault(k) ==
    CASE k = "executors" -> "1"
      [] k = "usage" -> "normal"
      [] k = "launch_method" -> "jnlp"
      [] k = "jnlp_workdir_enabled" -> "true"
      [] k = "jnlp_internal_dir" -> "remoting"
      [] k = "jnlp_fail_if_workspace_missing" -> "false"
      [] k = "wmi_service_run_as" -> "local_system"
      [] k = "ssh_port" -> "22"
      [] k = "ssh_host_verification" -> "known_hosts"
      [] k = "ssh_host_manually_trusted_require_initial_verification" -> "false"
      [] k \in {"ssh_connection_timeout", "ssh_retries", "ssh_wait_between_retries"} -> Null
      [] k = "ssh_tcp_no_delay" -> "true"
      [] k = "availability" -> "always"
      [] k = "on_demand_in_demand_delay" -> "0"
      [] k = "on_demand_idle_delay" -> "1"
      [] OTHER -> ""

\* The args map after the script's to_*_arg conversions: every configuration
\* argument becomes [set, val]; the others stay as given.
ParseArgs(params) ==
    [k \in ConfigArgs |->
        CASE k \in BoolArgs -> to_bool_arg(params[k], ArgDefault(k))
          [] k \in IntArgs -> to_int_arg(params[k], ArgDefault(k))
          [] k \in ChoiceArgs -> to_choice_arg(params[k], ArgDefault(k))
          [] OTHER -> to_string_arg(params[k], ArgDefault(k))] @@
    [k \in DOMAIN params \ ConfigArgs |-> params[k]]

arg_different(arg, val) == arg.set /\ arg.val # val

arg_replaceDefault(arg, val) == IF ~arg.set THEN [arg EXCEPT !.val = val] ELSE arg

--------------------------------------------------------------------------
(* Jenkins objects.  A node entry is the node object (a DumbSlave) plus    *)
(* the flags of its computer.  offlineCause holds the message of the       *)
(* UserCause (Null for a cause without message) or NoCause.                *)

NoNode == [exists |-> FALSE]

EmptyMap == [k \in {} |-> Null]

\* Groovy's  x ?: ''
Elvis(v) == IF v = Null \/ v = "" THEN "" ELSE v

createJnlpLauncher(args) ==
    [class |-> "jnlp",
     tunnel |-> args.jnlp_tunnel.val,
     vmargs |-> args.jnlp_jvm_options.val,
     workDirSettings |->
        [disabled |-> Not(args.jnlp_workdir_enabled.val),
         workDirPath |-> args.jnlp_workdir_path.val,
         internalDir |-> args.jnlp_internal_dir.val,
         failIfWorkDirIsMissing |-> args.jnlp_fail_if_workspace_missing.val]]

createCommandLauncher(args) ==
    [class |-> "command", command |-> args.command_launch_command.val]

createWmiLauncher(args) ==
    [class |-> "wmi",
     userName |-> args.wmi_admin_username.val,
     password |-> args.wmi_admin_password.val,
     host |-> args.wmi_host.val,
     account |->
        CASE args.wmi_service_run_as.val = "administrator" -> [class |-> "Administrator"]
          [] args.wmi_service_run_as.val = "user" ->
                [class |-> "AnotherUser",
                 userName |-> args.wmi_service_username.val,
                 password |-> args.wmi_service_password.val]
          [] OTHER -> [class |-> "LocalSystem"],
     vmargs |-> args.wmi_jvm_options.val,
     javaPath |-> args.wmi_java_path.val]

createSshLauncher(args) ==
    [class |-> "ssh",
     host |-> args.ssh_host.val,
     port |-> args.ssh_port.val,
     credentialsId |-> args.ssh_credentials_id.val,
     jvmOptions |-> args.ssh_jvm_options.val,
     javaPath |-> args.ssh_java_path.val,
     prefixStartSlaveCmd |-> args.ssh_command_prefix.val,
     suffixStartSlaveCmd |-> args.ssh_command_suffix.val,
     launchTimeoutSeconds |-> args.ssh_connection_timeout.val,
     maxNumRetries |-> args.ssh_retries.val,
     retryWaitTime |-> args.ssh_wait_between_retries.val,
     sshHostKeyVerificationStrategy |->
        CASE args.ssh_host_verification.val = "key" ->
                [class |-> "ManuallyProvidedKey", key |-> args.ssh_host_key.val]
          [] args.ssh_host_verification.val = "manually_trusted" ->
                [class |-> "ManuallyTrustedKey",
                 requireInitialManualTrust |->
                    args.ssh_host_manually_trusted_require_initial_verification.val]
          [] args.ssh_host_verification.val = "none" -> [class |-> "NonVerifyingKey"]
          [] OTHER -> [class |-> "KnownHostsFileKey"],
     tcpNoDelay |-> args.ssh_tcp_no_delay.val,
     workDir |-> args.ssh_workdir.val]

createLauncher(args) ==
    CASE args.launch_method.val = "jnlp" -> createJnlpLauncher(args)
      [] args.launch_method.val = "command" -> createCommandLauncher(args)
      [] args.launch_method.val = "wmi" -> createWmiLauncher(args)
      [] args.launch_method.val = "ssh" -> createSshLauncher(args)

createRetentionStrategy(args) ==
    CASE args.availability.val = "always" -> [class |-> "Always"]
      [] args.availability.val = "on_demand" ->
            [class |-> "Demand",
             inDemandDelay |-> args.on_demand_in_demand_delay.val,
             idleDelay |-> args.on_demand_idle_delay.val]

createMode(args) ==
    CASE args.usage.val = "exclusive" -> "EXCLUSIVE"
      [] args.usage.val = "normal" -> "NORMAL"

createNodeObject(args) ==
    [nodeName |-> args.name,
     remoteFS |-> args.root_dir.val,
     nodeDescription |-> args.description.val,
     numExecutors |-> args.executors.val,
     labelString |-> args.labels.val,
     mode |-> createMode(args),
     launcher |-> createLauncher(args),
     retentionStrategy |-> createRetentionStrategy(args)]

\* computer.offline: temporarily offline or without a channel
offline(e) == e.temporarilyOffline \/ e.channelClosed

\* computer.offlineCauseReason: the text of the cause, '' when there is none
offlineCauseReason(e) ==
    IF e.offlineCause = NoCause \/ e.offlineCause = Null THEN "" ELSE e.offlineCause

\* variant: the launch capability looked at after the connection
LifecycleState_CapabilityLast(e) ==
    IF ~e.exists THEN "absent"
    ELSE IF e.temporarilyOffline THEN "offline"
    ELSE IF offline(e) THEN "disconnected"
    ELSE IF ~e.launchSupported THEN "online"
    ELSE "connected"

LifecycleState(e) ==
    IF ~e.exists THEN "absent"
    ELSE IF e.temporarilyOffline THEN "offline"
    ELSE IF ~e.launchSupported THEN "online"
    ELSE IF offline(e) THEN "disconnected"
    ELSE "connected"

LauncherState(launcher) ==
    CASE launcher.class = "jnlp" ->
            [launch_method |-> "jnlp",
             jnlp_workdir_enabled |-> Not(launcher.workDirSettings.disabled),
             jnlp_internal_dir |-> Elvis(launcher.workDirSettings.internalDir),
             jnlp_fail_if_workspace_missing |-> launcher.workDirSettings.failIfWorkDirIsMissing,
             jnlp_tunnel |-> Elvis(launcher.tunnel),
             jnlp_jvm_options |-> Elvis(launcher.vmargs),
             jnlp_secret |-> "secret"] @@
            (IF launcher.workDirSettings.disabled = "false"
             THEN [jnlp_workdir_path |-> Elvis(launcher.workDirSettings.workDirPath)]
             ELSE EmptyMap)
      [] launcher.class = "command" ->
            [launch_method |-> "command",
             command_launch_command |-> Elvis(launcher.command)]
      [] launcher.class = "wmi" ->
            [launch_method |-> "wmi",
             wmi_host |-> Elvis(launcher.host),
             wmi_admin_username |-> Elvis(launcher.userName),
             wmi_admin_password |-> Elvis(launcher.password),
             wmi_java_path |-> Elvis(launcher.javaPath),
             wmi_jvm_options |-> Elvis(launcher.vmargs)] @@
            (CASE launcher.account.class = "Administrator" ->
                    [wmi_service_run_as |-> "administrator"]
               [] launcher.account.class = "AnotherUser" ->
                    [wmi_service_run_as |-> "user",
                     wmi_service_username |-> Elvis(launcher.account.userName),
                     wmi_service_password |-> Elvis(launcher.account.password)]
               [] launcher.account.class = "LocalSystem" ->
                    [wmi_service_run_as |-> "local_system"])
      [] launcher.class = "ssh" ->
            [launch_method |-> "ssh",
             ssh_host |-> Elvis(launcher.host),
             ssh_port |-> launcher.port,
             ssh_credentials_id |-> Elvis(launcher.credentialsId),
             ssh_java_path |-> Elvis(launcher.javaPath),
             ssh_jvm_options |-> Elvis(launcher.jvmOptions),
             ssh_command_prefix |-> Elvis(launcher.prefixStartSlaveCmd),
             ssh_command_suffix |-> Elvis(launcher.suffixStartSlaveCmd),
             ssh_connection_timeout |-> launcher.launchTimeoutSeconds,
             ssh_retries |-> launcher.maxNumRetries,
             ssh_wait_between_retries |-> launcher.retryWaitTime,
             ssh_tcp_no_delay |-> launcher.tcpNoDelay,
             ssh_workdir |-> Elvis(launcher.workDir)] @@
            (LET vs == launcher.sshHostKeyVerificationStrategy IN
             CASE vs.class = "KnownHostsFileKey" -> [ssh_host_verification |-> "known_hosts"]
               [] vs.class = "ManuallyProvidedKey" ->
                    [ssh_host_verification |-> "key", ssh_host_key |-> vs.key]
               [] vs.class = "ManuallyTrustedKey" ->
                    [ssh_host_verification |-> "manually_trusted",
                     ssh_host_manually_trusted_require_initial_verification |->
                        vs.requireInitialManualTrust]
               [] vs.class = "NonVerifyingKey" -> [ssh_host_verification |-> "none"])

RetentionState(rs) ==
    CASE rs.class = "Always" -> [availability |-> "always"]
      [] rs.class = "Demand" ->
            [availability |-> "on_demand",
             on_demand_in_demand_delay |-> rs.inDemandDelay,
             on_demand_idle_delay |-> rs.idleDelay]

\* variant: computer.jnlpMac reported for every launcher
getCurrentState_SecretAlways(e) ==
    IF ~e.exists THEN [state |-> "absent"]
    ELSE
        [state |-> LifecycleState(e)] @@
        (IF LifecycleState(e) = "offline"
         THEN [offline_reason |-> offlineCauseReason(e)] ELSE EmptyMap) @@
        (IF LifecycleState(e) = "disconnected"
         THEN [disconnected_reason |-> offlineCauseReason(e)] ELSE EmptyMap) @@
        [name |-> e.node.nodeName,
         description |-> Elvis(e.node.nodeDescription),
         executors |-> e.node.numExecutors,
         root_dir |-> Elvis(e.node.remoteFS),
         labels |-> Elvis(e.node.labelString),
         usage |-> IF e.node.mode = "EXCLUSIVE" THEN "exclusive" ELSE "normal"] @@
        LauncherState(e.node.launcher) @@
        RetentionState(e.node.retentionStrategy) @@
        [jnlp_secret |-> "secret"]

\* getCurrentState(node): the result map of the script for a node entry.
getCurrentState(e) ==
    IF ~e.exists THEN [state |-> "absent"]
    ELSE
        [state |-> LifecycleState(e)] @@
        (IF LifecycleState(e) = "offline"
         THEN [offline_reason |-> offlineCauseReason(e)] ELSE EmptyMap) @@
        (IF LifecycleState(e) = "disconnected"
         THEN [disconnected_reason |-> offlineCauseReason(e)] ELSE EmptyMap) @@
        [name |-> e.node.nodeName,
         description |-> Elvis(e.node.nodeDescription),
         executors |-> e.node.numExecutors,
         root_dir |-> Elvis(e.node.remoteFS),
         labels |-> Elvis(e.node.labelString),
         usage |-> IF e.node.mode = "EXCLUSIVE" THEN "exclusive" ELSE "normal"] @@
        LauncherState(e.node.launcher) @@
        RetentionState(e.node.retentionStrategy)

--------------------------------------------------------------------------
(* The control-plane calls the script makes, as effects on a node entry.   *)

\* One control-plane call in the log of a script invocation.
Op(op, flag, cause, awaited) ==
    [op |-> op, flag |-> flag, cause |-> cause, awaited |-> awaited]

\* computer.launchSupported of a computer running this launcher: false for
\* JNLP (the agent dials in), true for SSH and WMI; the script does not
\* decide it for a command launcher, so that is the control plane's choice ch.
launchSupported(launcher, ch) ==
    CASE launcher.class = "jnlp" -> FALSE
      [] launcher.class = "command" -> ch.launch
      [] OTHER -> TRUE

\* Jenkins.instance.addNode(node): a new node gets a fresh computer, a node
\* of the same name is replaced and keeps its computer.  A launch-capable
\* computer starts connecting on its own, so its channel may or may not be
\* up afterwards (ch.channel).
addNode(e, node, ch) ==
    IF ~e.exists
    THEN [exists |-> TRUE, node |-> node,
          temporarilyOffline |-> FALSE, offlineCause |-> NoCause,
          launchSupported |-> launchSupported(node.launcher, ch),
          channelClosed |-> IF launchSupported(node.launcher, ch) THEN ch.channel ELSE TRUE,
          idle |-> TRUE]
    ELSE IF node.launcher = e.node.launcher
    THEN [e EXCEPT !.node = node]
    ELSE [e EXCEPT !.node = node,
                   !.launchSupported =
                        IF node.launcher.class = e.node.launcher.class
                        THEN @ ELSE launchSupported(node.launcher, ch),
                   !.channelClosed =
                        IF node.launcher.class = e.node.launcher.class
                        THEN ch.channel
                        ELSE IF launchSupported(node.launcher, ch) THEN ch.channel ELSE TRUE]

\* computer.setTemporarilyOffline(flag, cause): clearing the flag drops the cause
setTemporarilyOffline(e, flag, cause) ==
    [e EXCEPT !.temporarilyOffline = flag,
              !.offlineCause = IF flag THEN cause ELSE NoCause]

\* computer.connect(true) followed by future.get()
computerConnect(e) ==
    [e EXCEPT !.channelClosed = FALSE, !.offlineCause = NoCause]

\* computer.disconnect(cause): the cause is recorded and the channel closed
computerDisconnect(e, cause) ==
    [e EXCEPT !.channelClosed = TRUE, !.offlineCause = cause]

\* new OfflineCause.UserCause(User.current(), reason == '' ? null : reason)
createOfflineCause(reason) == IF reason = "" THEN Null ELSE reason

--------------------------------------------------------------------------
(* The script.  Each function maps the node entry e and the log ops of the *)
(* invocation to an outcome: a return value (k = "ret"), an exception      *)
(* (k = "throw"), or the idle-wait loop of makeTemporarilyOffline          *)
(* (k = "wait", with cont naming the caller to resume).                    *)

Ret(e, ops, val) ==
    [k |-> "ret", e |-> e, ops |-> ops, val |-> val, cont |-> "", error |-> ""]

Throw(e, ops, msg) ==
    [k |-> "throw", e |-> e, ops |-> ops, val |-> FALSE, cont |-> "", error |-> msg]

WaitAt(e, ops, cont) ==
    [k |-> "wait", e |-> e, ops |-> ops, val |-> TRUE, cont |-> cont, error |-> ""]

Unsupported == "can not actively be connected or disconnected"

stopTemporarilyOffline(e, ops) ==
    [e |-> setTemporarilyOffline(e, FALSE, Null),
     ops |-> Append(ops, Op("setTemporarilyOffline", FALSE, Null, TRUE))]

\* makeTemporarilyOffline up to its wait loop; reason is Null when the
\* caller passes none (reason ?: args.offline_reason).
makeTemporarilyOffline(e, ops, args, reason) ==
    LET r == IF reason = Null \/ reason = "" THEN args.offline_reason ELSE reason
        cause == createOfflineCause(r)
    IN  [e |-> setTemporarilyOffline(e, TRUE, cause),
         ops |-> Append(ops, Op("setTemporarilyOffline", TRUE, cause, TRUE))]

\* variant: connect without clearing the temporarily-offline flag
connect_KeepsOffline(e, ops) ==
    [e |-> computerConnect(e),
     ops |-> Append(ops, Op("connect", TRUE, Null, TRUE))]

\* variant: connect clearing the temporarily-offline flag after connecting
connect_ClearsLast(e, ops) ==
    LET e1 == computerConnect(e)
        ops1 == Append(ops, Op("connect", TRUE, Null, TRUE))
    IN  IF e1.temporarilyOffline THEN stopTemporarilyOffline(e1, ops1)
        ELSE [e |-> e1, ops |-> ops1]

connect(e, ops) ==
    LET s == IF e.temporarilyOffline THEN stopTemporarilyOffline(e, ops)
             ELSE [e |-> e, ops |-> ops]
    IN  [e |-> computerConnect(s.e),
         ops |-> Append(s.ops, Op("connect", TRUE, Null, TRUE))]

\* variant: disconnect without the second computer.disconnect
disconnectRest_Once(e, ops, args) ==
    LET cause == createOfflineCause(args.disconnected_reason)
        e1 == computerDisconnect(e, cause)
        ops1 == Append(ops, Op("disconnect", TRUE, cause, TRUE))
    IN  IF e1.temporarilyOffline THEN stopTemporarilyOffline(e1, ops1)
        ELSE [e |-> e1, ops |-> ops1]

\* disconnect after its optional makeTemporarilyOffline: the awaited
\* disconnect, then, if the node is temporarily offline, the flag is
\* cleared and the disconnect issued again (not awaited) to set the reason.
disconnectRest(e, ops, args) ==
    LET cause == createOfflineCause(args.disconnected_reason)
        e1 == computerDisconnect(e, cause)
        ops1 == Append(ops, Op("disconnect", TRUE, cause, TRUE))
    IN  IF e1.temporarilyOffline
        THEN LET s == stopTemporarilyOffline(e1, ops1)
             IN  IF args.disconnected_reason # ""
                 THEN [e |-> computerDisconnect(s.e, cause),
                       ops |-> Append(s.ops, Op("disconnect", TRUE, cause, FALSE))]
                 ELSE s
        ELSE [e |-> e1, ops |-> ops1]

\* variant: disconnect draining whatever wait_jobs_finish says
disconnect_AlwaysDrains(e, ops, args) ==
    IF ~offline(e) \/ ~e.idle
    THEN LET s == makeTemporarilyOffline(e, ops, args, "Slave is disconnecting")
         IN  WaitAt(s.e, s.ops, "disconnect")
    ELSE LET s == disconnectRest(e, ops, args)
         IN  Ret(s.e, s.ops, TRUE)

\* variant: disconnect without marking the node and waiting
disconnect_NoDrain(e, ops, args) ==
    LET s == disconnectRest(e, ops, args)
    IN  Ret(s.e, s.ops, TRUE)

disconnect(e, ops, args) ==
    IF args.wait_jobs_finish /\ (~offline(e) \/ ~e.idle)
    THEN LET s == makeTemporarilyOffline(e, ops, args, "Slave is disconnecting")
         IN  WaitAt(s.e, s.ops, "disconnect")
    ELSE LET s == disconnectRest(e, ops, args)
         IN  Ret(s.e, s.ops, TRUE)

\* variant: the wait loop entered whatever wait_jobs_finish says
applyOffline_AlwaysWaits(e, ops, args) ==
    LET s == makeTemporarilyOffline(e, ops, args, Null)
    IN  WaitAt(s.e, s.ops, "applyState")

\* applyState's  makeTemporarilyOffline(node); return true
applyOffline(e, ops, args) ==
    LET s == makeTemporarilyOffline(e, ops, args, Null)
    IN  IF args.wait_jobs_finish THEN WaitAt(s.e, s.ops, "applyState")
        ELSE Ret(s.e, s.ops, TRUE)

\* variant: applyState without the launchSupported check
canLaunch_Always(e) == TRUE

\* computer.launchSupported as applyState reads it before an active
\* connect or disconnect of a temporarily offline node
canLaunch(e) == e.launchSupported

\* variant: applyState without the offline_reason comparison
offlineReasonDiffers_Always(current, args) == TRUE

\* current.offline_reason != args.offline_reason
offlineReasonDiffers(current, args) == current.offline_reason # args.offline_reason

\* variant: applyState without the disconnected_reason comparison
disconnectedReasonDiffers_Always(current, args) == TRUE

\* current.disconnected_reason != args.disconnected_reason
disconnectedReasonDiffers(current, args) ==
    current.disconnected_reason # args.disconnected_reason

applyFromOnline(e, ops, args) ==
    CASE args.state = "online" -> Ret(e, ops, FALSE)
      [] args.state = "offline" -> applyOffline(e, ops, args)
      [] args.state \in {"connected", "disconnected"} -> Throw(e, ops, Unsupported)
      [] OTHER -> Throw(e, ops, "Invalid state")

\* variant: state=online on a temporarily offline node connecting it
applyFromOffline_OnlineConnects(e, ops, args, current) ==
    CASE args.state \in {"online", "connected"} ->
            IF ~canLaunch(e) /\ args.state = "connected" THEN Throw(e, ops, Unsupported)
            ELSE LET s == connect(e, ops) IN Ret(s.e, s.ops, TRUE)
      [] args.state = "offline" ->
            IF offlineReasonDiffers(current, args)
            THEN applyOffline(e, ops, args)
            ELSE Ret(e, ops, FALSE)
      [] args.state = "disconnected" ->
            IF ~canLaunch(e) THEN Throw(e, ops, Unsupported)
            ELSE disconnect(e, ops, args)
      [] OTHER -> Throw(e, ops, "Invalid state")

applyFromOffline(e, ops, args, current) ==
    CASE args.state = "online" ->
            LET s == stopTemporarilyOffline(e, ops) IN Ret(s.e, s.ops, TRUE)
      [] args.state = "offline" ->
            IF offlineReasonDiffers(current, args)
            THEN applyOffline(e, ops, args)
            ELSE Ret(e, ops, FALSE)
      [] args.state = "connected" ->
            IF ~canLaunch(e) THEN Throw(e, ops, Unsupported)
            ELSE LET s == connect(e, ops) IN Ret(s.e, s.ops, TRUE)
      [] args.state = "disconnected" ->
            IF ~canLaunch(e) THEN Throw(e, ops, Unsupported)
            ELSE disconnect(e, ops, args)
      [] OTHER -> Throw(e, ops, "Invalid state")

applyFromConnected(e, ops, args) ==
    CASE args.state \in {"online", "connected"} -> Ret(e, ops, FALSE)
      [] args.state = "offline" -> applyOffline(e, ops, args)
      [] args.state = "disconnected" -> disconnect(e, ops, args)
      [] OTHER -> Throw(e, ops, "Invalid state")

applyFromDisconnected(e, ops, args, current) ==
    CASE args.state = "online" -> Ret(e, ops, FALSE)
      [] args.state = "offline" -> applyOffline(e, ops, args)
      [] args.state = "connected" ->
            LET s == connect(e, ops) IN Ret(s.e, s.ops, TRUE)
      [] args.state = "disconnected" ->
            IF disconnectedReasonDiffers(current, args)
            THEN disconnect(e, ops, args)
            ELSE Ret(e, ops, FALSE)
      [] OTHER -> Throw(e, ops, "Invalid state")

\* variant: applyState without the early return for state=present, which
\* then takes the online branches
applyState_PresentAsOnline(e, ops, args) ==
    LET current == getCurrentState(e)
        a == IF args.state = "present" THEN [args EXCEPT !.state = "online"] ELSE args
    IN  CASE current.state = "online" -> applyFromOnline(e, ops, a)
          [] current.state = "offline" -> applyFromOffline(e, ops, a, current)
          [] current.state = "connected" -> applyFromConnected(e, ops, a)
          [] current.state = "disconnected" -> applyFromDisconnected(e, ops, a, current)
          [] OTHER -> Throw(e, ops, "Invalid state")

applyState(e, ops, args) ==
    LET current == getCurrentState(e) IN
    IF args.state = "present" THEN Ret(e, ops, FALSE)
    ELSE CASE current.state = "online" -> applyFromOnline(e, ops, args)
           [] current.state = "offline" -> applyFromOffline(e, ops, args, current)
           [] current.state = "connected" -> applyFromConnected(e, ops, args)
           [] current.state = "disconnected" -> applyFromDisconnected(e, ops, args, current)
           [] OTHER -> Throw(e, ops, "Invalid state")

--------------------------------------------------------------------------
(* The configuration diff of changeNode.                                   *)

isUsageChange(args, current) ==
    args.usage.set /\ arg_different(args.usage, current.usage)

\* variant: a set delay counted as a change whatever the observed policy
isAvailabilityChange_AnyDelay(args, current) ==
    /\ args.availability.set
    /\ \/ arg_different(args.availability, current.availability)
       \/ args.on_demand_in_demand_delay.set
       \/ args.on_demand_idle_delay.set

isAvailabilityChange(args, current) ==
    /\ args.availability.set
    /\ \/ arg_different(args.availability, current.availability)
       \/ /\ current.availability = "on_demand"
          /\ \/ arg_different(args.on_demand_in_demand_delay, current.on_demand_in_demand_delay)
             \/ arg_different(args.on_demand_idle_delay, current.on_demand_idle_delay)

isJnlpChange(args, current) ==
    \/ arg_different(args.jnlp_workdir_enabled, current.jnlp_workdir_enabled)
    \/ /\ current.jnlp_workdir_enabled = "true"
       /\ arg_different(args.jnlp_workdir_path, current.jnlp_workdir_path)
    \/ arg_different(args.jnlp_internal_dir, current.jnlp_internal_dir)
    \/ arg_different(args.jnlp_fail_if_workspace_missing, current.jnlp_fail_if_workspace_missing)
    \/ arg_different(args.jnlp_tunnel, current.jnlp_tunnel)
    \/ arg_different(args.jnlp_jvm_options, current.jnlp_jvm_options)

isCommandChange(args, current) ==
    arg_different(args.command_launch_command, current.command_launch_command)

isWmiChange(args, current) ==
    \/ arg_different(args.wmi_host, current.wmi_host)
    \/ arg_different(args.wmi_admin_username, current.wmi_admin_username)
    \/ arg_different(args.wmi_admin_password, current.wmi_admin_password)
    \/ arg_different(args.wmi_java_path, current.wmi_java_path)
    \/ arg_different(args.wmi_jvm_options, current.wmi_jvm_options)
    \/ /\ args.wmi_service_run_as.set
       /\ \/ arg_different(args.wmi_service_run_as, current.wmi_service_run_as)
          \/ /\ current.wmi_service_run_as = "user"
             /\ \/ arg_different(args.wmi_service_username, current.wmi_service_username)
                \/ arg_different(args.wmi_service_password, current.wmi_service_password)

isSshChange(args, current) ==
    \/ arg_different(args.ssh_host, current.ssh_host)
    \/ arg_different(args.ssh_port, current.ssh_port)
    \/ arg_different(args.ssh_credentials_id, current.ssh_credentials_id)
    \/ /\ args.ssh_host_verification.set
       /\ \/ arg_different(args.ssh_host_verification, current.ssh_host_verification)
          \/ /\ current.ssh_host_verification = "key"
             /\ arg_different(args.ssh_host_key, current.ssh_host_key)
          \/ /\ current.ssh_host_verification = "manually_trusted"
             /\ arg_different(args.ssh_host_manually_trusted_require_initial_verification,
                              current.ssh_host_manually_trusted_require_initial_verification)
    \/ arg_different(args.ssh_java_path, current.ssh_java_path)
    \/ arg_different(args.ssh_jvm_options, current.ssh_jvm_options)
    \/ arg_different(args.ssh_command_prefix, current.ssh_command_prefix)
    \/ arg_different(args.ssh_command_suffix, current.ssh_command_suffix)
    \/ arg_different(args.ssh_connection_timeout, current.ssh_connection_timeout)
    \/ arg_different(args.ssh_retries, current.ssh_retries)
    \/ arg_different(args.ssh_wait_between_retries, current.ssh_wait_between_retries)
    \/ arg_different(args.ssh_tcp_no_delay, current.ssh_tcp_no_delay)
    \/ arg_different(args.ssh_workdir, current.ssh_workdir)

\* variant: a set launch_method counted as a launcher change
isLauncherChange_WhenSet(args, current) == args.launch_method.set

isLauncherChange(args, current) ==
    /\ args.launch_method.set
    /\ \/ arg_different(args.launch_method, current.launch_method)
       \/ current.launch_method = "jnlp" /\ isJnlpChange(args, current)
       \/ current.launch_method = "command" /\ isCommandChange(args, current)
       \/ current.launch_method = "wmi" /\ isWmiChange(args, current)
       \/ current.launch_method = "ssh" /\ isSshChange(args, current)

\* changeNode's loop over current: every unset argument that the observed
\* state reports takes the observed value.
\* variant: changeNode without the loop that inherits the observed values
replaceDefaults_None(args, current) == args

replaceDefaults(args, current) ==
    [k \in DOMAIN args |->
        IF k \in ConfigArgs /\ k \in DOMAIN current
        THEN arg_replaceDefault(args[k], current[k]) ELSE args[k]]

\* the checks of changeNode that set changed before the node is replaced
isConfigChange(args, current) ==
    \/ args.root_dir.set /\ current.root_dir # args.root_dir.val
    \/ isLauncherChange(args, current)
    \/ isAvailabilityChange(args, current)
    \/ isUsageChange(args, current)
    \/ args.description.set /\ current.description # args.description.val
    \/ args.executors.set /\ current.executors # args.executors.val
    \/ args.labels.set /\ current.labels # args.labels.val

--------------------------------------------------------------------------
(* process and the functions it dispatches to.  The outcome carries the    *)
(* changed flag so far in val.                                             *)

\* Class.forName of the launcher class in createCommandLauncher,
\* createWmiLauncher, createSshLauncher: it is found when the plugin is there
launcherAvailable(args, ch) ==
    args.launch_method.val = "jnlp" \/ args.launch_method.val \in ch.plugins

\* the exception the three functions throw on ClassNotFoundException
Unavailable(method) ==
    CASE method = "command" ->
            "You must install Command Agent Launcher plugin to be able to use launch_method='command'"
      [] method = "wmi" ->
            "You must install WMI Windows Agents plugin to be able to use launch_method='wmi'"
      [] method = "ssh" ->
            "You must install SSH Slaves plugin to be able to use launch_method='ssh'"
      [] OTHER -> "Unknown launch_method"

\* variant: createNode returning what applyState returns
createNode_ReturnsApplyState(e, args, ch) ==
    IF ~launcherAvailable(args, ch)
    THEN Throw(e, <<>>, Unavailable(args.launch_method.val))
    ELSE LET e1 == addNode(e, createNodeObject(args), ch)
         IN  applyState(e1, <<Op("addNode", TRUE, Null, TRUE)>>, args)

\* createNodeObject() is evaluated, and may throw, before addNode is called
createNode(e, args, ch) ==
    IF ~launcherAvailable(args, ch)
    THEN Throw(e, <<>>, Unavailable(args.launch_method.val))
    ELSE LET e1 == addNode(e, createNodeObject(args), ch)
             r == applyState(e1, <<Op("addNode", TRUE, Null, TRUE)>>, args)
         IN  IF r.k = "ret" THEN Ret(r.e, r.ops, TRUE) ELSE r

\* variant: changeNode applying the state before it rebuilds the node
changeNode_AppliesStateFirst(e, args0, ch) ==
    LET current == getCurrentState(e)
        args == replaceDefaults(args0, current)
        changed == isConfigChange(args, current)
        r == applyState(e, <<>>, args)
    IN  IF r.k # "ret" THEN r
        ELSE IF ~changed THEN r
        ELSE IF ~launcherAvailable(args, ch)
        THEN Throw(r.e, r.ops, Unavailable(args.launch_method.val))
        ELSE Ret(addNode(r.e, createNodeObject(args), ch),
                 Append(r.ops, Op("addNode", TRUE, Null, TRUE)), TRUE)

\* variant: applyState working on the node handle changeNode was given
\* instead of fetching the node again
changeNode_StaleHandle(e, args0, ch) ==
    LET current == getCurrentState(e)
        args == replaceDefaults(args0, current)
        changed == isConfigChange(args, current)
        ops1 == IF changed THEN <<Op("addNode", TRUE, Null, TRUE)>> ELSE <<>>
        r == applyState(e, ops1, args)
    IN  IF changed /\ ~launcherAvailable(args, ch)
        THEN Throw(e, <<>>, Unavailable(args.launch_method.val))
        ELSE IF r.k = "ret" THEN Ret(r.e, r.ops, changed \/ r.val) ELSE r

\* variant: changeNode returning what applyState returns, the
\* configuration change forgotten
changeNode_OnlyStateResult(e, args0, ch) ==
    LET current == getCurrentState(e)
        args == replaceDefaults(args0, current)
        changed == isConfigChange(args, current)
        e1 == IF changed THEN addNode(e, createNodeObject(args), ch) ELSE e
        ops1 == IF changed THEN <<Op("addNode", TRUE, Null, TRUE)>> ELSE <<>>
        r == applyState(e1, ops1, args)
    IN  IF changed /\ ~launcherAvailable(args, ch)
        THEN Throw(e, <<>>, Unavailable(args.launch_method.val))
        ELSE r

changeNode(e, args0, ch) ==
    LET current == getCurrentState(e)
        args == replaceDefaults(args0, current)
        changed == isConfigChange(args, current)
        e1 == IF changed THEN addNode(e, createNodeObject(args), ch) ELSE e
        ops1 == IF changed THEN <<Op("addNode", TRUE, Null, TRUE)>> ELSE <<>>
        r == applyState(e1, ops1, args)
    IN  IF changed /\ ~launcherAvailable(args, ch)
        THEN Throw(e, <<>>, Unavailable(args.launch_method.val))
        ELSE IF r.k = "ret" THEN Ret(r.e, r.ops, changed \/ r.val) ELSE r

\* variant: removeNode returning false after the delete
removeRest_ReturnsFalse(e, ops) ==
    Ret(NoNode, Append(ops, Op("doDoDelete", TRUE, Null, TRUE)), FALSE)

\* node.computer.doDoDelete(); return true
removeRest(e, ops) ==
    Ret(NoNode, Append(ops, Op("doDoDelete", TRUE, Null, TRUE)), TRUE)

\* variant: removeNode marking the node offline without its own reason
removeNode_NoReason(e, args) ==
    IF ~e.exists THEN Ret(e, <<>>, FALSE)
    ELSE IF args.wait_jobs_finish
    THEN LET s == makeTemporarilyOffline(e, <<>>, args, Null)
         IN  WaitAt(s.e, s.ops, "removeNode")
    ELSE removeRest(e, <<>>)

removeNode(e, args) ==
    IF ~e.exists THEN Ret(e, <<>>, FALSE)
    ELSE IF args.wait_jobs_finish
    THEN LET s == makeTemporarilyOffline(e, <<>>, args, "Slave is going to be removed")
         IN  WaitAt(s.e, s.ops, "removeNode")
    ELSE removeRest(e, <<>>)

\* variant: the query case falling through to the absent case
process_QueryFallsThrough(e, args, ch) ==
    CASE args.state \in {"query", "absent"} -> removeNode(e, args)
      [] args.state \in {"present", "online", "offline", "connected", "disconnected"} ->
            IF ~e.exists THEN createNode(e, args, ch) ELSE changeNode(e, args, ch)
      [] OTHER -> Throw(e, <<>>, "Unknown state")

process(e, args, ch) ==
    CASE args.state = "query" -> Ret(e, <<>>, FALSE)
      [] args.state = "absent" -> removeNode(e, args)
      [] args.state \in {"present", "online", "offline", "connected", "disconnected"} ->
            IF ~e.exists THEN createNode(e, args, ch) ELSE changeNode(e, args, ch)
      [] OTHER -> Throw(e, <<>>, "Unknown state")

\* what runs when the wait loop of makeTemporarilyOffline ends, by caller
resume(e, ops, args, cont) ==
    CASE cont = "removeNode" -> removeRest(e, ops)
      [] cont = "disconnect" ->
            LET s == disconnectRest(e, ops, args) IN Ret(s.e, s.ops, TRUE)
      [] OTHER -> Ret(e, ops, TRUE)

--------------------------------------------------------------------------
(* Inputs.                                                                 *)

Names == {"a1"}

\* largest wait_jobs_finish_max_time tried
MaxTime == 1

Reasons == {Null, "", "x"}

Override(base, o) == [k \in DOMAIN base |-> IF k \in DOMAIN o THEN o[k] ELSE base[k]]

\* the configuration arguments a task sets; everything else is left unset
Desired ==
    { EmptyMap,
      [root_dir |-> "/r1"],
      [launch_method |-> "jnlp"],
      [launch_method |-> "ssh"],
      [launch_method |-> "command"] }

\* state with the reason it reads: offline_reason is read only for
\* state=offline, disconnected_reason only for state=disconnected
Targets ==
    { [state |-> s] : s \in States \ {"offline", "disconnected"} } \cup
    { [state |-> "offline", offline_reason |-> r] : r \in Reasons } \cup
    { [state |-> "disconnected", disconnected_reason |-> r] : r \in Reasons }

\* wait_jobs_finish with the bound it reads
Waits ==
    { [wait_jobs_finish |-> FALSE] } \cup
    { [wait_jobs_finish |-> TRUE, wait_jobs_finish_max_time |-> t] : t \in 0..MaxTime }

Inputs ==
    { Override(Override(Override(DefaultParams, d), t), w) :
        d \in Desired, t \in Targets, w \in Waits }

\* what the control plane decides when a node is added: whether a command
\* launcher supports launching, whether the channel of a launch-capable
\* computer is still down
Choices == [launch : BOOLEAN, channel : BOOLEAN]

\* the choices that matter for a call on entry e: none unless process() adds
\* a node, launch only for a command launcher
ChoicesFor(e, args0) ==
    LET args == IF e.exists THEN replaceDefaults(args0, getCurrentState(e)) ELSE args0
        adds == /\ args.state \notin {"query", "absent"}
                /\ ~e.exists \/ isConfigChange(args, getCurrentState(e))
    IN  { ch \in Choices :
            /\ (~adds \/ args.launch_method.val # "command") => ch.launch
            /\ (~adds \/ args.launch_method.val = "jnlp") => ch.channel }

--------------------------------------------------------------------------
(* The state machine: one script invocation at a time; the environment     *)
(* (jobs, agents) acts on the computers between invocations and during the *)
(* wait loop.                                                              *)

IdleCall ==
    [pc |-> "idle", params |-> DefaultParams, ops |-> <<>>, changed |-> FALSE,
     cont |-> "", waits |-> 0, error |-> "", result |-> EmptyMap,
     before |-> NoNode, repeat |-> FALSE]

\* the launch methods that need a plugin: Class.forName fails without it
Plugins == {"command", "wmi", "ssh"}

Init ==
    /\ nodes = [n \in Names |-> NoNode]
    /\ call = IdleCall
    /\ plugins = Plugins
    /\ other = IdleCall

\* the call record after outcome r of the script
Settle(c, r) ==
    CASE r.k = "ret" ->
            [c EXCEPT !.pc = "done", !.ops = r.ops, !.changed = r.val, !.cont = "",
                      !.result = getCurrentState(r.e)]
      [] r.k = "throw" ->
            [c EXCEPT !.pc = "error", !.ops = r.ops, !.error = r.error, !.cont = ""]
      [] r.k = "wait" ->
            [c EXCEPT !.pc = "waiting", !.ops = r.ops, !.cont = r.cont]

\* variant: the outcome written to every node of the control plane
Run_AllNodes(params, repeat) ==
    LET e == nodes[params.name]
        args == ParseArgs(params)
    IN  \E c0 \in ChoicesFor(e, args) :
            LET ch == [launch |-> c0.launch, channel |-> c0.channel, plugins |-> plugins]
                r == process(e, args, ch)
                c == [IdleCall EXCEPT !.params = params, !.before = e,
                                      !.repeat = repeat]
            IN  /\ nodes' = [n \in DOMAIN nodes |-> r.e]
                /\ call' = Settle(c, r)
                /\ UNCHANGED <<plugins, other>>

\* run_module: the script runs process() up to its result, its exception or
\* the wait loop
Run(params, repeat) ==
    LET e == nodes[params.name]
        args == ParseArgs(params)
    IN  \E c0 \in ChoicesFor(e, args) :
            LET ch == [launch |-> c0.launch, channel |-> c0.channel, plugins |-> plugins]
                r == process(e, args, ch)
                c == [IdleCall EXCEPT !.params = params, !.before = e,
                                      !.repeat = repeat]
            IN  /\ nodes' = [nodes EXCEPT ![params.name] = r.e]
                /\ call' = Settle(c, r)
                /\ UNCHANGED <<plugins, other>>

\* a task runs the module
Start(params) ==
    /\ call.pc = "idle"
    /\ Run(params, FALSE)

\* the same task runs again right after the module returned
Again ==
    /\ call.pc \in {"done", "error"}
    /\ Run(call.params, TRUE)

\* module.exit_json / fail_json: the invocation is over
Return ==
    /\ call.pc \in {"done", "error"}
    /\ call' = IdleCall
    /\ UNCHANGED <<nodes, plugins, other>>

\* the wait loop is left with call record c: the caller of
\* makeTemporarilyOffline goes on
Finish(c) ==
    LET n == c.params.name
        r == resume(nodes[n], c.ops, ParseArgs(c.params), c.cont)
    IN  /\ nodes' = [nodes EXCEPT ![n] = r.e]
        /\ call' = Settle(c, r)
        /\ UNCHANGED <<plugins, other>>

\* while (!computer.idle): the node is idle, the loop ends
LoopExit ==
    /\ call.pc = "waiting"
    /\ nodes[call.params.name].idle
    /\ Finish(call)

\* sleep(1000); waits++ without reaching the bound (the counter is kept only
\* when a bound is set)
Sleep ==
    /\ call.pc = "waiting"
    /\ ~nodes[call.params.name].idle
    /\ ~(call.params.wait_jobs_finish_max_time > 0
         /\ call.waits + 1 > call.params.wait_jobs_finish_max_time)
    /\ call' = [call EXCEPT !.waits =
                    IF call.params.wait_jobs_finish_max_time > 0 THEN @ + 1 ELSE @]
    /\ UNCHANGED <<nodes, plugins, other>>

\* variant: the loop raising an exception when the bound is exceeded
LoopBreak_Raises ==
    /\ call.pc = "waiting"
    /\ ~nodes[call.params.name].idle
    /\ call.params.wait_jobs_finish_max_time > 0
    /\ call.waits + 1 > call.params.wait_jobs_finish_max_time
    /\ call' = [call EXCEPT !.waits = @ + 1, !.pc = "error",
                            !.error = "Timeout waiting for jobs to finish"]
    /\ UNCHANGED <<nodes, plugins, other>>

\* variant: the bound tested without its > 0 guard
LoopBreak_NoZeroCheck ==
    /\ call.pc = "waiting"
    /\ ~nodes[call.params.name].idle
    /\ call.waits + 1 > call.params.wait_jobs_finish_max_time
    /\ Finish([call EXCEPT !.waits = @ + 1])

\* variant: the counter started again at the bound, the loop going on
LoopBreak_Restarts ==
    /\ call.pc = "waiting"
    /\ ~nodes[call.params.name].idle
    /\ call.params.wait_jobs_finish_max_time > 0
    /\ call.waits + 1 > call.params.wait_jobs_finish_max_time
    /\ call' = [call EXCEPT !.waits = 0]
    /\ UNCHANGED <<nodes, plugins, other>>

\* sleep(1000); waits++; waits > wait_jobs_finish_max_time: break
LoopBreak ==
    /\ call.pc = "waiting"
    /\ ~nodes[call.params.name].idle
    /\ call.params.wait_jobs_finish_max_time > 0
    /\ call.waits + 1 > call.params.wait_jobs_finish_max_time
    /\ Finish([call EXCEPT !.waits = @ + 1])

\* a build starts on a node that accepts work
JobStart(n) ==
    /\ call.pc \in {"idle", "waiting"}
    /\ nodes[n].exists /\ nodes[n].idle /\ ~offline(nodes[n])
    /\ nodes' = [nodes EXCEPT ![n].idle = FALSE]
    /\ UNCHANGED <<call, plugins, other>>

\* the builds of a node end
JobFinish(n) ==
    /\ call.pc \in {"idle", "waiting"}
    /\ nodes[n].exists /\ ~nodes[n].idle
    /\ nodes' = [nodes EXCEPT ![n].idle = TRUE]
    /\ UNCHANGED <<call, plugins, other>>

\* the agent of a node connects on its own (JNLP dial-in, retention strategy)
AgentConnect(n) ==
    /\ call.pc \in {"idle", "waiting"}
    /\ nodes[n].exists /\ nodes[n].channelClosed
    /\ nodes' = [nodes EXCEPT ![n].channelClosed = FALSE]
    /\ UNCHANGED <<call, plugins, other>>

Next ==
    \/ \E params \in Inputs : Start(params)
    \/ Again
    \/ Return
    \/ LoopExit
    \/ Sleep
    \/ LoopBreak
    \/ \E n \in Names : JobStart(n)
    \/ \E n \in Names : JobFinish(n)
    \/ \E n \in Names : AgentConnect(n)

Spec == Init /\ [][Next]_vars


--------------------------------------------------------------------------
(* The configuration diff on its own: existing nodes of every launcher and *)
(* retention variant, and tasks with state=present that set the variant    *)
(* tags and at most one other configuration argument.                      *)

TagArgs == {"launch_method", "jnlp_workdir_enabled", "wmi_service_run_as",
            "ssh_host_verification", "availability"}

Choice(k) ==
    CASE k = "usage" -> {"normal", "exclusive"}
      [] k = "launch_method" -> {"jnlp", "command", "wmi", "ssh"}
      [] k = "wmi_service_run_as" -> {"local_system", "user", "administrator"}
      [] k = "ssh_host_verification" -> {"known_hosts", "key", "manually_trusted", "none"}
      [] k = "availability" -> {"always", "on_demand"}

\* two values per argument, one of them the value a sample node was made with
Values(k) ==
    CASE k \in ChoiceArgs -> Choice(k)
      [] k \in BoolArgs -> {"true", "false"}
      [] k \in IntArgs -> {IF ArgDefault(k) = Null THEN "1" ELSE ArgDefault(k), "5"}
      [] OTHER -> {"", "v1"}

\* the arguments the sample nodes were created with
DiffNodeSpecs ==
    { EmptyMap,
      [jnlp_workdir_enabled |-> "false"],
      [launch_method |-> "command", command_launch_command |-> "v1"],
      [launch_method |-> "wmi"],
      [launch_method |-> "wmi", wmi_service_run_as |-> "user",
       wmi_service_username |-> "v1", wmi_service_password |-> "v1"],
      [launch_method |-> "ssh"],
      [launch_method |-> "ssh", ssh_host_verification |-> "key", ssh_host_key |-> "v1"],
      [launch_method |-> "ssh", ssh_host_verification |-> "manually_trusted"],
      [availability |-> "on_demand"],
      [launch_method |-> "ssh", availability |-> "on_demand", on_demand_idle_delay |-> "5"] }

DiffNodes ==
    { addNode(NoNode, createNodeObject(ParseArgs(Override(DefaultParams, o))),
              [launch |-> TRUE, channel |-> TRUE]) : o \in DiffNodeSpecs }

Opt(k) == {EmptyMap} \cup { k :> v : v \in Values(k) }

\* at most one nested variant tag
NestedTags ==
    Opt("jnlp_workdir_enabled") \cup Opt("wmi_service_run_as") \cup Opt("ssh_host_verification")

\* at most one argument that is not a variant tag
OneField == UNION { Opt(k) : k \in ConfigArgs \ TagArgs }

PresentNoWait == [state |-> "present", wait_jobs_finish |-> FALSE]

DiffInputs ==
    { Override(DefaultParams, f @@ t @@ lm @@ PresentNoWait) :
        f \in OneField, t \in NestedTags, lm \in Opt("launch_method") }
    \cup
    { Override(DefaultParams, a @@ d1 @@ d2 @@ PresentNoWait) :
        a \in Opt("availability"), d1 \in Opt("on_demand_in_demand_delay"),
        d2 \in Opt("on_demand_idle_delay") }

InitDiff ==
    /\ nodes \in [Names -> DiffNodes]
    /\ call = IdleCall
    /\ plugins = Plugins
    /\ other = IdleCall

NextDiff == \E params \in DiffInputs : Start(params)

SpecDiff == InitDiff /\ [][NextDiff]_vars

--------------------------------------------------------------------------
(* The wait loop on its own: tasks that create a node, then tasks that     *)
(* drain it (wait_jobs_finish = true) while jobs start and end.  The       *)
(* script console runs the script without pause, so an iteration of the   *)
(* wait loop that can be taken is taken.                                   *)

DrainInputs ==
    { Override(DefaultParams, d @@ [state |-> "present", wait_jobs_finish |-> FALSE]) :
        d \in {EmptyMap, [launch_method |-> "ssh"]} } \cup
    { Override(DefaultParams, t @@ [wait_jobs_finish |-> TRUE,
                                    wait_jobs_finish_max_time |-> m]) :
        t \in { [state |-> "offline"],
                [state |-> "disconnected", disconnected_reason |-> "x"],
                [state |-> "absent"] },
        m \in 0..MaxTime }

NextDrain ==
    \/ \E params \in DrainInputs : Start(params)
    \/ Return
    \/ LoopExit
    \/ Sleep
    \/ LoopBreak
    \/ \E n \in Names : JobStart(n)
    \/ \E n \in Names : JobFinish(n)
    \/ \E n \in Names : AgentConnect(n)

SpecDrain ==
    /\ Init /\ [][NextDrain]_vars
    /\ WF_vars(LoopExit) /\ WF_vars(Sleep) /\ WF_vars(LoopBreak)

--------------------------------------------------------------------------
(* Control planes with any set of launcher plugins: tasks that create or   *)
(* reconfigure a node with each launch method.                             *)

PluginInputs ==
    { Override(DefaultParams, l @@ r @@ [state |-> st, wait_jobs_finish |-> FALSE]) :
        l \in Opt("launch_method"), r \in {EmptyMap, [root_dir |-> "/r1"]},
        st \in {"present", "online", "offline", "connected"} }

InitPlugins ==
    /\ nodes = [n \in Names |-> NoNode]
    /\ call = IdleCall
    /\ plugins \in SUBSET Plugins
    /\ other = IdleCall

NextPlugins ==
    \/ \E params \in PluginInputs : Start(params)
    \/ Return

SpecPlugins == InitPlugins /\ [][NextPlugins]_vars

--------------------------------------------------------------------------
(* Two invocations for the same node.  Neither run_module nor the script   *)
(* takes a lock, and the script console serves each request on its own:    *)
(* while one invocation sleeps in its wait loop a second one, sent by      *)
(* another task, runs from start to end.                                   *)

IntrudeInputs ==
    { Override(DefaultParams, t @@ [wait_jobs_finish |-> FALSE]) :
        t \in { [state |-> "online"], [state |-> "offline", offline_reason |-> "x"] } }

\* the second invocation runs process() for the node the first one waits on
Intrude(params) ==
    /\ call.pc = "waiting"
    /\ other.pc = "idle"
    /\ params.name = call.params.name
    /\ LET e == nodes[params.name]
           args == ParseArgs(params)
       IN  \E c0 \in ChoicesFor(e, args) :
               LET ch == [launch |-> c0.launch, channel |-> c0.channel, plugins |-> plugins]
                   r == process(e, args, ch)
                   c == [IdleCall EXCEPT !.params = params, !.before = e]
               IN  /\ r.k # "wait"
                   /\ nodes' = [nodes EXCEPT ![params.name] = r.e]
                   /\ other' = Settle(c, r)
    /\ UNCHANGED <<call, plugins>>

\* both invocations have returned
ReturnBoth ==
    /\ call.pc \in {"done", "error"}
    /\ call' = IdleCall
    /\ other' = IdleCall
    /\ UNCHANGED <<nodes, plugins>>

NextRace ==
    \/ \E params \in DrainInputs : Start(params)
    \/ \E params \in IntrudeInputs : Intrude(params)
    \/ ReturnBoth
    \/ LoopExit
    \/ Sleep
    \/ LoopBreak
    \/ \E n \in Names : JobStart(n)
    \/ \E n \in Names : JobFinish(n)
    \/ \E n \in Names : AgentConnect(n)

SpecRace == Init /\ [][NextRace]_vars

--------------------------------------------------------------------------
(* A control plane with two nodes: tasks for either name, with jobs and    *)
(* agents acting on both.                                                  *)

TwoNames == {"a1", "a2"}

TwoInputs ==
    { Override(DefaultParams, [name |-> n] @@ t) :
        n \in TwoNames,
        t \in { [state |-> "present", wait_jobs_finish |-> FALSE],
                [state |-> "present", launch_method |-> "ssh", wait_jobs_finish |-> FALSE],
                [state |-> "online", wait_jobs_finish |-> FALSE],
                [state |-> "offline", offline_reason |-> "x", wait_jobs_finish |-> FALSE],
                [state |-> "disconnected", wait_jobs_finish |-> FALSE],
                [state |-> "absent", wait_jobs_finish |-> TRUE,
                 wait_jobs_finish_max_time |-> MaxTime] } }

InitTwo ==
    /\ nodes = [n \in TwoNames |-> NoNode]
    /\ call = IdleCall
    /\ plugins = Plugins
    /\ other = IdleCall

NextTwo ==
    \/ \E params \in TwoInputs : Start(params)
    \/ Return
    \/ LoopExit
    \/ Sleep
    \/ LoopBreak
    \/ \E n \in TwoNames : JobStart(n)
    \/ \E n \in TwoNames : JobFinish(n)
    \/ \E n \in TwoNames : AgentConnect(n)

SpecTwo == InitTwo /\ [][NextTwo]_vars

--------------------------------------------------------------------------
(* Properties.                                                             *)

Target == call.params.state

Returned == call.pc = "done"

\* the entry of the call's node now, and what the script would observe
Here == nodes[call.params.name]

HasOp(kinds) == \E i \in DOMAIN call.ops : call.ops[i].op \in kinds

CountOp(kinds) == Cardinality({ i \in DOMAIN call.ops : call.ops[i].op \in kinds })

LifecycleOps == {"setTemporarilyOffline", "connect", "disconnect"}

LauncherArgs ==
    ConfigArgs \ {"description", "executors", "root_dir", "labels", "usage",
                  "availability", "on_demand_in_demand_delay", "on_demand_idle_delay"}

RetentionArgs == {"availability", "on_demand_in_demand_delay", "on_demand_idle_delay"}

\* some explicitly set argument among keys differs from the value observed
\* before the call (arguments the observed state does not report belong to
\* an inactive variant)
SetAndDiffers(keys) ==
    LET cur == getCurrentState(call.before)
        args == ParseArgs(call.params)
    IN  \E k \in keys \cap DOMAIN cur : args[k].set /\ args[k].val # cur[k]

\* C1: two consecutive calls with identical inputs and no change in between:
\* the second call returns changed=false.
C1_Idempotent == (Returned /\ call.repeat) => ~call.changed

\* C2: a call that ends with the unsupported-transition error has issued no
\* control-plane call and leaves the node exactly as it was before the call.
C2_UnsupportedNoMutation ==
    (call.pc = "error" /\ call.error = Unsupported) =>
        (call.ops = <<>> /\ Here = call.before)

C4_LauncherDiff ==
    (Returned /\ call.before.exists /\ Target = "present" /\ SetAndDiffers(LauncherArgs)) =>
        (call.changed /\ HasOp({"addNode"}))

\* C5: on an existing node, when the desired availability differs from the
\* observed one, or the observed policy is on_demand and an explicitly set
\* delay differs, the node is replaced and changed=true, whether or not
\* availability is set.
C5_RetentionDiff ==
    (Returned /\ call.before.exists /\ Target = "present" /\ SetAndDiffers(RetentionArgs)) =>
        (call.changed /\ HasOp({"addNode"}))

\* C6: state=offline on a temporarily offline node: with offline_reason equal
\* to the observed reason no lifecycle call is made (changed=false unless the
\* configuration was replaced); with another offline_reason the node is
\* marked temporarily offline again with the new reason, changed=true and the
\* new reason is observed.
C6_OfflineReason ==
    (Returned /\ Target = "offline" /\ call.before.exists
        /\ call.before.temporarilyOffline /\ call.params.offline_reason # Null) =>
        IF offlineCauseReason(call.before) = call.params.offline_reason
        THEN ~HasOp(LifecycleOps) /\ (call.changed <=> HasOp({"addNode"}))
        ELSE /\ call.changed
             /\ \E i \in DOMAIN call.ops :
                    call.ops[i] = Op("setTemporarilyOffline", TRUE,
                                     createOfflineCause(call.params.offline_reason), TRUE)
             /\ call.result.state = "offline"
             /\ call.result.offline_reason = call.params.offline_reason

C6_Witness ==
    /\ Returned /\ Target = "offline" /\ call.before.exists
    /\ call.before.temporarilyOffline /\ offlineCauseReason(call.before) = ""
    /\ call.params.offline_reason = "x" /\ call.result.offline_reason = "x"
    /\ call.changed

\* C7: a call with state=disconnected and disconnected_reason r that returns
\* leaves the node observed as disconnected with reason r, from every
\* initial state and for both values of wait_jobs_finish.
C7_DisconnectReason ==
    (Returned /\ Target = "disconnected" /\ call.params.disconnected_reason # Null) =>
        /\ call.result.state = "disconnected"
        /\ call.result.disconnected_reason = call.params.disconnected_reason
        /\ getCurrentState(Here) = call.result

C7_Witness ==
    /\ Returned /\ Target = "disconnected" /\ call.params.disconnected_reason = "x"
    /\ call.before.exists /\ call.before.temporarilyOffline
    /\ call.params.wait_jobs_finish
    /\ CountOp({"disconnect"}) = 2
    /\ call.result.disconnected_reason = "x"

\* C8: state=query issues no control-plane call, leaves the node as it was,
\* and returns the observed state with changed=false; absent for a node that
\* does not exist.
C8_QueryReadOnly ==
    (call.pc # "idle" /\ Target = "query") =>
        /\ Returned
        /\ call.ops = <<>>
        /\ Here = call.before
        /\ ~call.changed
        /\ call.result = getCurrentState(call.before)
        /\ ~call.before.exists => call.result.state = "absent"

C8_Witness ==
    Returned /\ Target = "query" /\ ~call.before.exists /\ call.result.state = "absent"

\* C9: state=absent: a node that does not exist is left alone with
\* changed=false; a node that exists is deleted, changed=true and the
\* returned state is absent.
C9_Absent ==
    (Returned /\ Target = "absent") =>
        IF ~call.before.exists
        THEN call.ops = <<>> /\ ~call.changed /\ ~Here.exists
        ELSE /\ CountOp({"doDoDelete"}) = 1
             /\ call.ops[Len(call.ops)].op = "doDoDelete"
             /\ call.changed
             /\ ~Here.exists
             /\ call.result.state = "absent"

C9_Witness ==
    Returned /\ Target = "absent" /\ call.before.exists /\ call.changed /\ ~Here.exists

\* the observed state satisfies the requested one
Reached(state, observed) ==
    CASE state = "present" -> observed # "absent"
      [] state = "online" -> observed \notin {"absent", "offline"}
      [] OTHER -> observed = state

CreateTargets == {"present", "online", "offline", "connected", "disconnected"}

\* C10 as stated: every call with one of the five states on a node that
\* does not exist returns changed=true after creating exactly one node.
C10_CreateAlwaysReturns ==
    (call.pc \in {"done", "error"} /\ ~call.before.exists /\ Target \in CreateTargets) =>
        (Returned /\ call.changed /\ CountOp({"addNode"}) = 1)

\* C10 amended: every such call that returns a result has created exactly
\* one node, as its first control-plane call, returns changed=true and an
\* observed state that satisfies the requested one; with the JNLP launcher
\* and state=online the returned state is online.
C10_Create ==
    (Returned /\ ~call.before.exists /\ Target \in CreateTargets) =>
        /\ call.changed
        /\ CountOp({"addNode"}) = 1
        /\ call.ops[1].op = "addNode"
        /\ Here.exists
        /\ Reached(Target, call.result.state)
        /\ (Target = "online" /\ call.params.launch_method \in {Null, "jnlp"})
                => call.result.state = "online"

C10_Witness ==
    /\ Returned /\ ~call.before.exists /\ Target = "online"
    /\ call.params.launch_method = Null
    /\ call.changed /\ call.result.state = "online"
    /\ call.result.launch_method = "jnlp"

\* every optional configuration argument of the call is unset
AllUnset == \A k \in ConfigArgs : call.params[k] = Null

\* the defaults of a created node other than jnlp_workdir_enabled
OtherDefaults(r) ==
    /\ r.executors = "1"
    /\ r.usage = "normal"
    /\ r.launch_method = "jnlp"
    /\ r.jnlp_internal_dir = "remoting"
    /\ r.jnlp_fail_if_workspace_missing = "false"
    /\ r.availability = "always"

\* C11: a node created by a call that sets no optional argument is observed
\* with 1 executor, usage normal, launch method jnlp with
\* jnlp_workdir_enabled = no, internal dir remoting,
\* fail-if-workspace-missing = no and availability always.
C11_CreationDefaults ==
    (Returned /\ ~call.before.exists /\ Target \in CreateTargets /\ AllUnset) =>
        (OtherDefaults(call.result) /\ call.result.jnlp_workdir_enabled = "false")

\* C12: a call with state=present issues no setTemporarilyOffline, connect
\* or disconnect, never enters the idle wait, always returns, and makes at
\* most one control-plane call: the addNode that creates the node or
\* replaces its configuration.
C12_PresentConfigOnly ==
    (call.pc # "idle" /\ Target = "present") =>
        /\ Returned
        /\ call.waits = 0
        /\ ~HasOp(LifecycleOps)
        /\ \/ call.ops = <<>> /\ Here = call.before /\ ~call.changed
           \/ /\ call.ops = <<Op("addNode", TRUE, Null, TRUE)>>
              /\ call.changed
              /\ Here.exists
              /\ call.before.exists =>
                    /\ Here.temporarilyOffline = call.before.temporarilyOffline
                    /\ Here.offlineCause = call.before.offlineCause

C12_Witness ==
    /\ Returned /\ Target = "present" /\ call.before.exists
    /\ call.before.temporarilyOffline /\ call.before.launchSupported
    /\ call.ops = <<Op("addNode", TRUE, Null, TRUE)>>
    /\ Here.temporarilyOffline

\* C13: a call with state=online never connects or disconnects: on a
\* temporarily offline node its only lifecycle call clears the flag and
\* changed=true; on any other node it makes no lifecycle call and changed is
\* true only when the node was created or its configuration replaced.
C13_OnlineNeverConnects ==
    (call.pc # "idle" /\ Target = "online") =>
        /\ Returned
        /\ call.waits = 0
        /\ ~HasOp({"connect", "disconnect"})
        /\ IF call.before.exists /\ call.before.temporarilyOffline
           THEN /\ call.ops[Len(call.ops)] = Op("setTemporarilyOffline", FALSE, Null, TRUE)
                /\ CountOp(LifecycleOps) = 1
                /\ call.changed
                /\ ~Here.temporarilyOffline
                /\ Here.channelClosed = call.before.channelClosed
                        \/ HasOp({"addNode"})
           ELSE /\ ~HasOp(LifecycleOps)
                /\ call.changed <=> HasOp({"addNode"})

C13_Witness ==
    /\ Returned /\ Target = "online" /\ call.before.exists
    /\ call.before.temporarilyOffline /\ call.before.launchSupported
    /\ call.before.channelClosed
    /\ call.result.state = "disconnected" /\ call.changed

\* C14: the state a call returns satisfies the requested one: offline gives
\* offline, connected gives connected, disconnected gives disconnected with
\* the temporarily-offline flag cleared, online gives a state other than
\* offline, absent gives absent; and it is the state of the node as the
\* call leaves it.
C14_TargetAchieved ==
    (Returned /\ Target \in {"offline", "connected", "disconnected", "online", "absent"}) =>
        /\ call.result = getCurrentState(Here)
        /\ Reached(Target, call.result.state)
        /\ Target = "disconnected" => ~Here.temporarilyOffline
        /\ Target = "absent" => ~Here.exists

C14_Witness ==
    /\ Returned /\ Target = "disconnected" /\ call.before.exists
    /\ call.before.temporarilyOffline /\ ~call.before.channelClosed
    /\ call.params.wait_jobs_finish
    /\ call.result.state = "disconnected" /\ ~Here.temporarilyOffline

MaxWait == call.params.wait_jobs_finish_max_time

\* the wait loop was left by its break: more sleeps than the bound
TimedOut == MaxWait > 0 /\ call.waits > MaxWait

\* C15: with wait_jobs_finish_max_time = N > 0 the wait loop sleeps at most
\* N times, on a node that never becomes idle, and the call then goes on
\* without an error.
C15_DrainBound ==
    MaxWait > 0 => (call.waits <= MaxWait /\ (call.waits = MaxWait => call.pc # "error"))

\* C16: a call whose wait loop was left by its break, the node still busy,
\* ends without an error, returns changed=true and has carried out what it
\* waited for: the node is deleted, disconnected, or stays marked offline.
C16_TimeoutNotError ==
    (call.pc \in {"done", "error"} /\ TimedOut) =>
        /\ Returned
        /\ call.changed
        /\ Target \in {"absent", "disconnected", "offline"}
        /\ Target = "absent" =>
                /\ call.ops[Len(call.ops)].op = "doDoDelete"
                /\ ~Here.exists /\ call.result.state = "absent"
        /\ Target = "disconnected" =>
                /\ HasOp({"disconnect"})
                /\ Here.channelClosed /\ call.result.state = "disconnected"
        /\ Target = "offline" =>
                /\ Here.temporarilyOffline /\ call.result.state = "offline"

C16_Witness ==
    /\ Returned /\ TimedOut /\ Target = "absent" /\ call.before.exists
    /\ call.changed /\ ~Here.exists

\* C17: with wait_jobs_finish_max_time = 0 the wait loop is left only in a
\* state where the node is idle, and once the node is idle the loop is
\* eventually left.
C17_UnboundedDrain ==
    /\ [][(call.pc = "waiting" /\ MaxWait = 0 /\ call'.pc # "waiting")
            => nodes[call.params.name].idle]_vars
    /\ (call.pc = "waiting" /\ MaxWait = 0 /\ nodes[call.params.name].idle)
            ~> (call.pc # "waiting")

C17_Witness ==
    /\ call.pc = "waiting" /\ MaxWait = 0 /\ ~nodes[call.params.name].idle
    /\ Target = "disconnected"

\* C18: with wait_jobs_finish = false no call enters the wait loop or
\* sleeps, and a call with state=absent or state=disconnected never marks
\* the node temporarily offline.
C18_NoDrainUnlessRequested ==
    ~call.params.wait_jobs_finish =>
        /\ call.pc # "waiting"
        /\ call.waits = 0
        /\ Target \in {"absent", "disconnected"} =>
                \A i \in DOMAIN call.ops :
                    ~(call.ops[i].op = "setTemporarilyOffline" /\ call.ops[i].flag)

C18_Witness ==
    /\ Returned /\ ~call.params.wait_jobs_finish /\ Target = "disconnected"
    /\ call.before.exists /\ ~call.before.channelClosed /\ ~call.before.idle
    /\ HasOp({"disconnect"})

RemovalMark == Op("setTemporarilyOffline", TRUE, "Slave is going to be removed", TRUE)

\* C19: a call with state=absent and wait_jobs_finish = true on an existing
\* node first marks the node temporarily offline with the fixed removal
\* reason, then runs the wait loop with the node still there, and deletes
\* the node only once the loop is left.
C19_DrainBeforeRemoval ==
    /\ []((call.pc # "idle" /\ Target = "absent" /\ call.before.exists
            /\ call.params.wait_jobs_finish) =>
            IF call.pc = "waiting"
            THEN /\ call.ops = <<RemovalMark>>
                 /\ Here.exists /\ Here.temporarilyOffline
                 /\ Here.offlineCause = "Slave is going to be removed"
            ELSE /\ Returned
                 /\ call.ops = <<RemovalMark, Op("doDoDelete", TRUE, Null, TRUE)>>
                 /\ ~Here.exists)
    /\ [][(call'.params.state = "absent" /\ call'.params.wait_jobs_finish
            /\ nodes[call'.params.name].exists /\ ~nodes'[call'.params.name].exists) =>
            /\ call.pc = "waiting"
            /\ call'.params = call.params
            /\ Here.idle \/ (MaxWait > 0 /\ call.waits + 1 > MaxWait)]_vars

C19_Witness ==
    /\ Returned /\ Target = "absent" /\ call.before.exists
    /\ call.params.wait_jobs_finish /\ TimedOut
    /\ Len(call.ops) = 2 /\ ~Here.exists

\* the call asks for a launch method whose plugin the control plane lacks
WantsMissingLauncher ==
    /\ Target \in CreateTargets
    /\ call.params.launch_method \in Plugins \ plugins

\* C20: a call that has to build a command, wmi or ssh launcher on a control
\* plane without the plugin ends with the plugin error, has made no
\* control-plane call (no node created or replaced, no lifecycle call) and
\* leaves the node as it was before, whether the node was absent or existed
\* with another launcher.
C20_LauncherUnavailable ==
    /\ (call.pc # "idle" /\ WantsMissingLauncher) =>
            /\ call.pc = "error"
            /\ call.error = Unavailable(call.params.launch_method)
    /\ (call.pc = "error" /\ call.error \in { Unavailable(m) : m \in Plugins }) =>
            /\ WantsMissingLauncher
            /\ call.ops = <<>>
            /\ Here = call.before

C20_Witness ==
    /\ call.pc = "error" /\ call.error = Unavailable("ssh")
    /\ call.before.exists /\ call.before.temporarilyOffline
    /\ Target = "online" /\ call.params.root_dir # Null
    /\ Here = call.before

\* the arguments the call builds a node from: those of the task, the unset
\* ones inherited from the node observed before the call
Effective ==
    IF call.before.exists
    THEN replaceDefaults(ParseArgs(call.params), getCurrentState(call.before))
    ELSE ParseArgs(call.params)

\* the launcher asked for lacks what its variant needs: the
\* require-initial-verification flag for SSH host verification
\* 'manually_trusted', user name and password for the WMI account 'user'.
\* (An SSH key for 'key' is handed to the plugin's constructor as it is;
\* whether an empty one is refused is the plugin's matter.)
InconsistentLauncher ==
    LET a == Effective
        inherited == IF call.before.exists THEN DOMAIN getCurrentState(call.before) ELSE {}
        flag == "ssh_host_manually_trusted_require_initial_verification"
    IN  \/ /\ a.launch_method.val = "ssh"
           /\ a.ssh_host_verification.val = "manually_trusted"
           /\ ~a[flag].set /\ flag \notin inherited
        \/ /\ a.launch_method.val = "wmi"
           /\ a.wmi_service_run_as.val = "user"
           /\ a.wmi_service_username.val = "" \/ a.wmi_service_password.val = ""

\* C21: a call whose launcher arguments are inconsistent is rejected with
\* an error, without any control-plane call and with the node as it was.
C21_ValidationPrecedesMutation ==
    (call.pc # "idle" /\ Target \in CreateTargets /\ InconsistentLauncher) =>
        (call.pc = "error" /\ call.ops = <<>> /\ Here = call.before)

\* the configuration arguments the task sets that the node observed before
\* the call does not report: fields of a launcher or retention variant
\* other than the node's
InactiveSet ==
    { k \in ConfigArgs \ DOMAIN getCurrentState(call.before) : call.params[k] # Null }

\* C22: on an existing node, when no set argument differs from the value
\* observed (so the launcher and retention tags are unset or unchanged),
\* the arguments of other variants the task sets change nothing: no change
\* is detected, no control-plane call is made and the node stays as it was.
C22_VariantIsolation ==
    (Returned /\ call.before.exists /\ Target = "present" /\ ~SetAndDiffers(ConfigArgs)) =>
        (~call.changed /\ call.ops = <<>> /\ Here = call.before)

C22_Witness ==
    /\ Returned /\ call.before.exists /\ Target = "present"
    /\ ~SetAndDiffers(ConfigArgs)
    /\ call.params.launch_method = "jnlp" /\ call.before.node.launcher.class = "jnlp"
    /\ "ssh_host" \in InactiveSet
    /\ ~call.changed

\* C23: on an existing node, when root_dir is the only set argument that
\* differs from the observed value, the launcher, retention and usage
\* checks report no change and the node is replaced by one that differs in
\* root_dir alone; a call that sets no optional argument detects no change
\* and makes no control-plane call.
C23_DiffMinimality ==
    (Returned /\ call.before.exists /\ Target = "present") =>
        LET cur == getCurrentState(call.before)
            args == Effective
        IN  /\ (SetAndDiffers({"root_dir"}) /\ ~SetAndDiffers(ConfigArgs \ {"root_dir"})) =>
                    /\ ~isLauncherChange(args, cur)
                    /\ ~isAvailabilityChange(args, cur)
                    /\ ~isUsageChange(args, cur)
                    /\ call.changed
                    /\ call.ops = <<Op("addNode", TRUE, Null, TRUE)>>
                    /\ Here.node = [call.before.node EXCEPT !.remoteFS = call.params.root_dir]
            /\ AllUnset =>
                    /\ ~isConfigChange(args, cur)
                    /\ ~call.changed /\ call.ops = <<>> /\ Here = call.before

C23_Witness ==
    /\ Returned /\ call.before.exists /\ Target = "present"
    /\ SetAndDiffers({"root_dir"}) /\ ~SetAndDiffers(ConfigArgs \ {"root_dir"})
    /\ call.params.launch_method = "ssh" /\ call.before.node.launcher.class = "ssh"
    /\ call.before.node.retentionStrategy.class = "Demand"
    /\ call.changed

\* C24: when an existing node is replaced, every configuration argument
\* the new node reports has the value the task set, or, when the task left
\* it unset and the old node reported it, the value observed before.
C24_RebuildInherits ==
    (Returned /\ call.before.exists /\ HasOp({"addNode"})) =>
        LET cur == getCurrentState(call.before)
            new == getCurrentState(Here)
        IN  \A k \in ConfigArgs \cap DOMAIN new :
                IF call.params[k] # Null THEN new[k] = call.params[k]
                ELSE k \in DOMAIN cur => new[k] = cur[k]

C24_Witness ==
    /\ Returned /\ call.before.exists /\ HasOp({"addNode"})
    /\ call.before.node.launcher.class = "wmi"
    /\ call.before.node.launcher.account.class = "AnotherUser"
    /\ call.params.launch_method = "wmi"
    /\ call.params.wmi_service_run_as = Null /\ call.params.wmi_host = "v1"
    /\ Here.node.launcher.account = call.before.node.launcher.account
    /\ Here.node.launcher.host = "v1"

\* C25: within one call addNode, if called, is the first control-plane
\* call, so every setTemporarilyOffline, connect and disconnect comes after
\* it; and those calls act on the node addNode put in place: the node of
\* that name is the object built from the call's arguments.
C25_ConfigBeforeLifecycle ==
    call.pc # "idle" =>
        /\ \A i \in DOMAIN call.ops : call.ops[i].op = "addNode" => i = 1
        /\ (HasOp({"addNode"}) /\ Here.exists) => Here.node = createNodeObject(Effective)

C25_Witness ==
    /\ Returned /\ call.before.exists /\ ~call.before.temporarilyOffline
    /\ Len(call.ops) = 2 /\ call.ops[1].op = "addNode"
    /\ call.ops[2].op = "setTemporarilyOffline"
    /\ Here.temporarilyOffline /\ Here.node # call.before.node

\* C26: every connect and every disconnect a call issues is awaited
\* (future.get()) before the call observes the final state and returns.
C26_AllAwaited ==
    Returned =>
        \A i \in DOMAIN call.ops :
            call.ops[i].op \in {"connect", "disconnect"} => call.ops[i].awaited

\* the first invocation issued a control-plane call after its wait loop:
\* its last call is not the mark that precedes the loop
CalledAfterWait ==
    /\ call.ops # <<>>
    /\ ~(call.ops[Len(call.ops)].op = "setTemporarilyOffline" /\ call.ops[Len(call.ops)].flag)

\* C27: the control-plane calls of two invocations for the same node never
\* interleave: the second invocation makes no call between the calls the
\* first one makes before and after its wait loop.
C27_NoInterleaving ==
    (call.pc \in {"done", "error"} /\ other.pc \in {"done", "error"}) =>
        ~(other.ops # <<>> /\ CalledAfterWait)

\* the node the invocation that takes a step is for
Reconciled == IF call.pc = "idle" THEN call'.params.name ELSE call.params.name

FlagsGive(e, s) ==
    /\ e.temporarilyOffline => s = "offline"
    /\ (~e.temporarilyOffline /\ ~e.launchSupported) => s = "online"
    /\ (~e.temporarilyOffline /\ e.launchSupported /\ offline(e)) => s = "disconnected"
    /\ (~e.temporarilyOffline /\ e.launchSupported /\ ~offline(e)) => s = "connected"
    /\ ~e.launchSupported => s \in {"online", "offline"}

\* C29: the state observed for a node is given by its temporarily-offline
\* flag, then its launch capability, then its connection: offline, online,
\* disconnected, connected; a node that cannot be launched is observed only
\* as online or offline.  So is the state a call returns.
C29_StateFromFlags ==
    /\ \A n \in DOMAIN nodes :
          nodes[n].exists => FlagsGive(nodes[n], getCurrentState(nodes[n]).state)
    /\ (call.pc = "done" /\ Here.exists) => FlagsGive(Here, call.result.state)

\* a call returns online for a node that cannot be launched and has no
\* connection, while the other node is connected
C29_Witness ==
    /\ call.pc = "done" /\ call.params.name = "a1" /\ call.result.state = "online"
    /\ nodes["a1"].exists /\ ~nodes["a1"].launchSupported /\ nodes["a1"].channelClosed
    /\ nodes["a2"].exists /\ getCurrentState(nodes["a2"]).state = "connected"

\* the result fields of each launcher variant
VariantFields(method) ==
    CASE method = "jnlp" ->
            {"jnlp_workdir_enabled", "jnlp_workdir_path", "jnlp_internal_dir",
             "jnlp_fail_if_workspace_missing", "jnlp_tunnel", "jnlp_jvm_options",
             "jnlp_secret"}
      [] method = "command" -> {"command_launch_command"}
      [] method = "wmi" ->
            {"wmi_host", "wmi_admin_username", "wmi_admin_password", "wmi_java_path",
             "wmi_jvm_options", "wmi_service_run_as", "wmi_service_username",
             "wmi_service_password"}
      [] method = "ssh" ->
            {"ssh_host", "ssh_port", "ssh_credentials_id", "ssh_java_path",
             "ssh_jvm_options", "ssh_command_prefix", "ssh_command_suffix",
             "ssh_connection_timeout", "ssh_retries", "ssh_wait_between_retries",
             "ssh_tcp_no_delay", "ssh_workdir", "ssh_host_verification", "ssh_host_key",
             "ssh_host_manually_trusted_require_initial_verification"}

\* C30: in the result of a call, jnlp_secret is present only for a JNLP
\* launcher, offline_reason only with state offline, disconnected_reason only
\* with state disconnected, and no field of a launcher variant other than
\* the node's own is present.
C30_ConditionalFields ==
    call.pc = "done" =>
        LET res == call.result IN
        /\ "jnlp_secret" \in DOMAIN res =>
              (Here.exists /\ Here.node.launcher.class = "jnlp")
        /\ "offline_reason" \in DOMAIN res => res.state = "offline"
        /\ "disconnected_reason" \in DOMAIN res => res.state = "disconnected"
        /\ \A m \in {"jnlp", "command", "wmi", "ssh"} :
              (DOMAIN res \cap VariantFields(m) # {}) =>
                  (Here.exists /\ Here.node.launcher.class = m)

\* a call returns a disconnected ssh node: its reason and its ssh fields,
\* no secret
C30_Witness ==
    /\ call.pc = "done" /\ Here.exists /\ Here.node.launcher.class = "ssh"
    /\ call.result.state = "disconnected"
    /\ "disconnected_reason" \in DOMAIN call.result
    /\ "ssh_host" \in DOMAIN call.result
    /\ "jnlp_secret" \notin DOMAIN call.result

\* C31: every result a call returns holds the name of the node and its
\* state, whatever the requested state and whatever the node was.
C31_NameAndState ==
    Returned => {"name", "state"} \subseteq DOMAIN call.result

\* C32: a call whose state is the one a task gets when it leaves state out
\* issues no setTemporarilyOffline, connect or disconnect.
C32_DefaultIsPresent ==
    (call.pc # "idle" /\ Target = DefaultParams.state) => ~HasOp(LifecycleOps)

\* the call found an existing node in lifecycle state s and did not replace
\* its configuration, so s is the state applyState observed
Observed(s) ==
    call.before.exists /\ ~HasOp({"addNode"}) /\ LifecycleState(call.before) = s

ClearFlag == Op("setTemporarilyOffline", FALSE, Null, TRUE)

\* C33: state=disconnected on a launch-capable node observed offline: the
\* temporarily-offline flag is cleared first, every disconnect is issued
\* after that, and changed=true.
C33_ClearThenDisconnect ==
    (Returned /\ Target = "disconnected" /\ Observed("offline")
        /\ call.before.launchSupported) =>
        /\ call.changed
        /\ \E i \in DOMAIN call.ops :
              /\ call.ops[i] = ClearFlag
              /\ \E j \in DOMAIN call.ops : call.ops[j].op = "disconnect"
              /\ \A j \in DOMAIN call.ops : call.ops[j].op = "disconnect" => j > i

\* C34: state=connected on a launch-capable node: from offline the flag is
\* cleared and then a connect is issued and awaited; from disconnected only
\* the connect; from connected nothing; the call returns, with changed=true
\* in the first two cases and changed=false in the third.
C34_ConnectTransitions ==
    (call.pc # "idle" /\ Target = "connected" /\ call.before.exists
        /\ ~HasOp({"addNode"}) /\ call.before.launchSupported) =>
        /\ Returned
        /\ Observed("offline") =>
              call.ops = <<ClearFlag, Op("connect", TRUE, Null, TRUE)>> /\ call.changed
        /\ Observed("disconnected") =>
              call.ops = <<Op("connect", TRUE, Null, TRUE)>> /\ call.changed
        /\ Observed("connected") =>
              call.ops = <<>> /\ ~call.changed /\ Here = call.before

C34_Witness ==
    /\ Returned /\ Target = "connected" /\ Observed("offline")
    /\ call.before.launchSupported /\ call.before.channelClosed
    /\ Len(call.ops) = 2 /\ call.changed
    /\ call.result.state = "connected"

\* C35: state=offline on a node observed online, connected or disconnected:
\* the only control-plane call is the one that marks the node temporarily
\* offline with the caller's offline_reason, made before the wait loop; the
\* wait loop is entered only with wait_jobs_finish; no disconnect is issued;
\* a call that returns has changed=true.
C35_ToOffline ==
    (call.pc # "idle" /\ Target = "offline" /\ call.before.exists
        /\ ~HasOp({"addNode"}) /\ ~call.before.temporarilyOffline) =>
        /\ call.pc # "error"
        /\ call.ops = <<Op("setTemporarilyOffline", TRUE,
                           createOfflineCause(Elvis(call.params.offline_reason)), TRUE)>>
        /\ Here.temporarilyOffline
        /\ (call.pc = "waiting" \/ call.waits > 0) => call.params.wait_jobs_finish
        /\ Returned => call.changed /\ call.result.state = "offline"

C35_Witness ==
    /\ Returned /\ Target = "offline" /\ Observed("connected")
    /\ call.params.offline_reason = "x" /\ call.params.wait_jobs_finish
    /\ call.waits > 0 /\ call.changed
    /\ call.result.offline_reason = "x"

\* C36: state=disconnected with disconnected_reason r on a node observed
\* disconnected: when r is the observed reason the call makes no
\* control-plane call and returns changed=false; otherwise a disconnect
\* with cause r is issued and the call returns changed=true.
C36_DisconnectedReason ==
    (call.pc # "idle" /\ Target = "disconnected" /\ Observed("disconnected")
        /\ call.params.disconnected_reason # Null) =>
        IF offlineCauseReason(call.before) = call.params.disconnected_reason
        THEN Returned /\ call.ops = <<>> /\ ~call.changed /\ Here = call.before
        ELSE /\ call.pc # "error"
             /\ Returned =>
                  /\ call.changed
                  /\ \E i \in DOMAIN call.ops :
                        /\ call.ops[i].op = "disconnect"
                        /\ call.ops[i].cause =
                              createOfflineCause(call.params.disconnected_reason)

C36_Witness ==
    /\ Returned /\ Target = "disconnected" /\ Observed("disconnected")
    /\ call.params.disconnected_reason = "x"
    /\ offlineCauseReason(call.before) = "x"
    /\ call.ops = <<>> /\ ~call.changed

\* C37: with wait_jobs_finish a disconnect is issued only when the node is
\* idle (or was just created) or the wait loop was left by its bound; and a call that disconnects
\* a node found online or busy first marks it temporarily offline ('Slave
\* is disconnecting'), disconnects after the wait loop, then clears the flag.
C37_DrainBeforeDisconnect ==
    /\ [][(CountOp({"disconnect"})' > CountOp({"disconnect"})
            /\ call'.params.wait_jobs_finish) =>
                \/ ~nodes[call'.params.name].exists
                \/ nodes[call'.params.name].idle
                \/ /\ call'.params.wait_jobs_finish_max_time > 0
                   /\ call'.waits > call'.params.wait_jobs_finish_max_time]_vars
    /\ []((Returned /\ call.params.wait_jobs_finish /\ call.before.exists
            /\ ~HasOp({"addNode"}) /\ HasOp({"disconnect"})
            /\ (~offline(call.before) \/ ~call.before.idle)) =>
                /\ Len(call.ops) >= 3
                /\ call.ops[1] = Op("setTemporarilyOffline", TRUE,
                                    "Slave is disconnecting", TRUE)
                /\ call.ops[2].op = "disconnect"
                /\ call.ops[3] = ClearFlag
                /\ ~Here.temporarilyOffline)

C37_Witness ==
    /\ Returned /\ Target = "disconnected" /\ call.params.wait_jobs_finish
    /\ Observed("connected") /\ ~call.before.idle
    /\ MaxWait = 0 /\ Here.idle
    /\ Len(call.ops) >= 3 /\ call.ops[2].op = "disconnect"
    /\ ~Here.temporarilyOffline

\* C38: a call that returns a result has changed=false exactly when it made
\* no control-plane call (addNode, doDoDelete, setTemporarilyOffline,
\* connect, disconnect).
C38_ChangedAccurate ==
    Returned => (~call.changed <=> call.ops = <<>>)

C38_Witness ==
    /\ Returned /\ call.before.exists /\ Target = "offline"
    /\ call.changed /\ Len(call.ops) = 2
    /\ call.ops[1].op = "addNode" /\ call.ops[2].op = "setTemporarilyOffline"

\* C39: a call made with wait_jobs_finish = false or with a bound
\* wait_jobs_finish_max_time > 0 eventually ends with a result or an error,
\* whether or not its node ever becomes idle.
C39_Termination ==
    (call.pc # "idle" /\ (~call.params.wait_jobs_finish \/ MaxWait > 0))
        ~> (call.pc \in {"done", "error"})

\* a call with a bound is in the wait loop, has slept as long as the bound
\* allows, and its node is still busy
C39_Witness ==
    /\ call.pc = "waiting" /\ MaxWait > 0 /\ call.waits = MaxWait
    /\ ~Here.idle

====
